---------------------------- MODULE Spec2Model ----------------------------
(***************************************************************************)
(* Model of the tebexjs headless client: the Headless transport helper,    *)
(* the Basket resource client and the Store resource client.               *)
(*                                                                         *)
(* Text is modelled as a sequence of lexemes ("pieces"); Join flattens a   *)
(* piece sequence into the string it stands for.  A placeholder of a path  *)
(* template ("{token}", "{basketIdent}") is one piece, and so is each      *)
(* replacement pattern of String.prototype.replace ("$$", "$&", "$'") and  *)
(* each character encodeURIComponent escapes.                              *)
(*                                                                         *)
(* One program run constructs one client (a Basket or a Store) and then    *)
(* invokes up to MaxCalls of its methods; responses arrive in any order.   *)
(***************************************************************************)
EXTENDS Integers, Sequences, FiniteSets, TLC

VARIABLES
    client,       \* "none" | "basket" | "store" | "failed" (constructor threw)
    ctorResult,   \* outcome of the new expression: none yet, returned, or threw
    publicToken,  \* Headless.publicToken (a JS value)
    baseUrl,      \* Headless.baseUrl (a JS value)
    basketIdent,  \* Headless.basketIdent (a JS value)
    ident,        \* Basket.ident (a JS value)
    calls,        \* the promises of request()/method invocations, in invocation order
    net,          \* the fetch() calls issued, in order
    chain,        \* the constructor's .then/.catch chain: "none" | "pending" |
                  \* "stored" | "thenThrew" | "unhandled"
    unhandled     \* rejections no caller holds a promise for

vars == <<client, ctorResult, publicToken, baseUrl, basketIdent, ident,
          calls, net, chain, unhandled>>

\* Number of method invocations of one run.
MaxCalls == 1

-----------------------------------------------------------------------------
(* JavaScript values *)

JsUndefined == [t |-> "undefined"]
JsString(p) == [t |-> "string", v |-> p]
JsNumber(n) == [t |-> "number", v |-> n]
JsObject(o) == [t |-> "object", v |-> o]
JsNull == [t |-> "null"]

RECURSIVE Join(_)
\* The string a piece sequence stands for.
Join(p) == IF p = <<>> THEN "" ELSE Head(p) \o Join(Tail(p))

\* !x  (FalsyLoose: the variant x === undefined)
FalsyLoose(x) == x.t = "undefined"
Falsy(x) ==
    \/ x.t \in {"undefined", "null"}
    \/ x.t = "string" /\ x.v = <<>>
    \/ x.t = "number" /\ x.v = 0

\* x ?? d  (CoalesceNone: a variant that lets undefined through)
CoalesceNone(x, d) == IF x.t = "null" THEN d ELSE x
Coalesce(x, d) == IF x.t \in {"undefined", "null"} THEN d ELSE x

\* A default parameter value, quantity: number = 1, method: string = 'GET'
\* (DefaultParamOr: the variant x || d)
DefaultParamOr(x, d) == IF Falsy(x) THEN d ELSE x
DefaultParam(x, d) == IF x.t = "undefined" THEN d ELSE x

\* String(x), as a piece sequence
ToPieces(x) ==
    CASE x.t = "string" -> x.v
      [] x.t = "number" -> <<ToString(x.v)>>
      [] OTHER -> <<x.t>>

\* o.key of a parsed JSON value; on null the access throws (see CtorThen)
GetProp(o, key) ==
    IF o.t = "object" /\ key \in DOMAIN o.v THEN o.v[key] ELSE JsUndefined

-----------------------------------------------------------------------------
(* String.prototype.replace with a global pattern and a replacement string *)

RECURSIVE ExpandReplacement(_, _, _, _)
\* The text one match is replaced by: the replacement string with its
\* patterns expanded ($$ a dollar sign, $& the match, $' the text after the
\* match, and $ with a grave accent, written "$<" here, the text before it).
ExpandReplacement(repl, matched, before, after) ==
    IF repl = <<>> THEN <<>>
    ELSE LET h == Head(repl)
             e == CASE h = "$$" -> <<"$">>
                    [] h = "$&" -> <<matched>>
                    [] h = "$<" -> before
                    [] h = "$'" -> after
                    [] OTHER -> <<h>>
         IN e \o ExpandReplacement(Tail(repl), matched, before, after)

RECURSIVE ReplaceFrom(_, _, _, _)
ReplaceFrom(s, pat, repl, i) ==
    IF i > Len(s) THEN <<>>
    ELSE (IF s[i] = pat
          THEN ExpandReplacement(repl, pat, SubSeq(s, 1, i - 1),
                                 SubSeq(s, i + 1, Len(s)))
          ELSE <<s[i]>>) \o ReplaceFrom(s, pat, repl, i + 1)

\* s.replace(/pat/g, repl)
ReplaceAll(s, pat, repl) == ReplaceFrom(s, pat, ToPieces(repl), 1)

\* encodeURIComponent: the reserved characters become percent escapes
encodeURIComponent(p) ==
    [i \in 1..Len(p) |->
        CASE p[i] = ":" -> "%3A"
          [] p[i] = "/" -> "%2F"
          [] p[i] = "$" -> "%24"
          [] p[i] = "{" -> "%7B"
          [] p[i] = "}" -> "%7D"
          [] OTHER -> p[i]]

-----------------------------------------------------------------------------
(* JSON *)

\* JSON.stringify of one property value
StringifyValue(x) ==
    CASE x.t = "string" -> "\"" \o Join(x.v) \o "\""
      [] x.t = "number" -> ToString(x.v)
      [] OTHER -> "null"

RECURSIVE StringifyPairs(_)
StringifyPairs(b) ==
    IF b = <<>> THEN ""
    ELSE "\"" \o Head(b)[1] \o "\":" \o StringifyValue(Head(b)[2])
         \o (IF Len(b) > 1 THEN "," ELSE "") \o StringifyPairs(Tail(b))

\* JSON.stringify(body): an object is a sequence of <<key, value>> pairs;
\* JSON.stringify(undefined) is undefined, and fetch then sends no body.
JsonStringify(body) ==
    IF body.t = "undefined" THEN JsUndefined
    ELSE [t |-> "text", v |-> "{" \o StringifyPairs(body.v) \o "}"]

\* The response bodies of the model: a basket with an ident, a basket
\* without one, JSON null, and the empty body of a 204.
BodyIdent == "{\"ident\":\"xyz\",\"complete\":false}"
BodyNoIdent == "{\"complete\":false}"
BodyNull == "null"
BodyEmpty == ""

\* response.json(): the parsed value, or a SyntaxError
JsonParse(text) ==
    CASE text = BodyIdent ->
           [ok |-> TRUE, v |-> JsObject([ident |-> JsString(<<"xyz">>),
                                          complete |-> [t |-> "boolean", v |-> FALSE]])]
      [] text = BodyNoIdent ->
           [ok |-> TRUE, v |-> JsObject([complete |-> [t |-> "boolean", v |-> FALSE]])]
      [] text = BodyNull -> [ok |-> TRUE, v |-> JsNull]
      [] OTHER -> [ok |-> FALSE, v |-> JsUndefined]

-----------------------------------------------------------------------------
(* Headless.request *)

BaseUrl == "https://headless.tebex.io/api"

\* The route of a request: both placeholders substituted, in this order.
Route(path, tok, bid) ==
    ReplaceAll(ReplaceAll(path, "{token}", Coalesce(tok, JsString(<<>>))),
               "{basketIdent}", Coalesce(bid, JsString(<<>>)))

\* response.ok
ResponseOk(r) == r.status \in 200..299

\* The rejection of a response that is not ok
\* (FailureMessageNoText: a variant without the status text)
FailureMessageNoText(r) ==
    "Request failed with status " \o ToString(r.status)
FailureMessage(r) ==
    "Request failed with status " \o ToString(r.status) \o ": " \o r.statusText

Rejection(kind, message) == [kind |-> kind, message |-> message]

\* String(reason), the message of new Error(reason)
ReasonText(e) ==
    IF e.kind = "string" THEN e.message ELSE e.kind \o ": " \o e.message

\* The responses of the model, as fetch resolves with them.
Response(status, statusText, body) ==
    [status |-> status, statusText |-> statusText, body |-> body]
Responses ==
    { Response(200, "OK", BodyIdent),
      Response(200, "OK", BodyNoIdent),
      Response(200, "OK", BodyNull),
      Response(204, "No Content", BodyEmpty),
      Response(404, "Not Found", BodyNoIdent),
      Response(500, "Internal Server Error", BodyEmpty) }
NoResponse == Response(0, "", "")

NoReason == Rejection("none", "")

\* The promise of one invocation.  op, origin, args, resp and chainAtInvoke
\* record the invocation; state, value and reason are the promise's outcome;
\* sent counts the fetch() calls the invocation made, fetch is the state of
\* its fetch, jsonCalled whether response.json() was called.
Call(op, origin, args, state, reason, sent, fetch) ==
    [op |-> op, origin |-> origin, args |-> args, state |-> state,
     value |-> JsUndefined, reason |-> reason, sent |-> sent, fetch |-> fetch,
     jsonCalled |-> FALSE, resp |-> NoResponse, chainAtInvoke |-> chain]

\* return Promise.reject(message) of an argument check: no request is made.
Reject(op, args, message) ==
    /\ calls' = Append(calls, Call(op, "method", args, "rejected",
                                   Rejection("string", message), 0, "none"))
    /\ UNCHANGED net

\* request(path, method, body) up to its await fetch(...), on an instance
\* with the fields tok, base and bid.
request(op, origin, args, path, method, body, tok, base, bid) ==
    LET route == Route(path, tok, bid)
        m == DefaultParam(method, JsString(<<"GET">>))
    IN /\ calls' = Append(calls, Call(op, origin, args, "pending", NoReason, 1,
                                      "pending"))
       /\ net' = Append(net, [call |-> Len(calls) + 1,
                              method |-> Join(ToPieces(m)),
                              path |-> path,
                              url |-> Join(ToPieces(base) \o route),
                              contentType |-> "application/json",
                              body |-> body,
                              bodyText |-> JsonStringify(body)])

\* The rest of request(), once fetch has resolved with r.
FetchResponds(c, r) ==
    /\ c \in DOMAIN calls
    /\ calls[c].fetch = "pending"
    /\ calls' = [calls EXCEPT ![c] =
         IF ~ResponseOk(r)
         THEN [@ EXCEPT !.fetch = "responded", !.resp = r, !.state = "rejected",
                        !.reason = Rejection("string", FailureMessage(r))]
         ELSE LET parsed == JsonParse(r.body)
              IN IF parsed.ok
                 THEN [@ EXCEPT !.fetch = "responded", !.resp = r,
                                !.jsonCalled = TRUE, !.state = "fulfilled",
                                !.value = parsed.v]
                 ELSE [@ EXCEPT !.fetch = "responded", !.resp = r,
                                !.jsonCalled = TRUE, !.state = "rejected",
                                !.reason = Rejection("SyntaxError",
                                              "Unexpected end of JSON input")]]
    /\ UNCHANGED <<client, ctorResult, publicToken, baseUrl, basketIdent, ident,
                   net, chain, unhandled>>

\* fetch itself rejects (DNS, connection refused): the error propagates.
FetchFails(c) ==
    /\ c \in DOMAIN calls
    /\ calls[c].fetch = "pending"
    /\ calls' = [calls EXCEPT ![c] =
         [@ EXCEPT !.fetch = "failed", !.state = "rejected",
                   !.reason = Rejection("TypeError", "fetch failed")]]
    /\ UNCHANGED <<client, ctorResult, publicToken, baseUrl, basketIdent, ident,
                   net, chain, unhandled>>

-----------------------------------------------------------------------------
(* Basket *)

\* The inputs of the model.
TokenArgs == { JsString(<<>>), JsString(<<"abc">>), JsString(<<"$'">>) }
\* Store checks the type of its token at run time: a non-string is an input.
StoreTokenArgs == TokenArgs \cup { JsNumber(42) }
Codes == { JsString(<<>>), JsString(<<"CODE">>) }
ReturnUrls == { JsString(<<>>),
                JsString(<<"https", ":", "/", "/", "example.com", "/", "done">>) }
PackageIds == { JsString(<<>>), JsString(<<"pkg">>) }
Quantities == { JsUndefined, JsNumber(0), JsNumber(2) }

CreatePath == <<"/accounts/", "{token}", "/baskets">>
BasketPath == <<"/accounts/", "{token}", "/baskets/", "{basketIdent}">>
AuthPath(returnUrl) ==
    BasketPath \o <<"/auth?returnUrl=">> \o encodeURIComponent(returnUrl.v)
CreatorCodesPath == BasketPath \o <<"/creator-codes">>
CreatorCodesRemovePath == BasketPath \o <<"/creator-codes/remove">>
GiftcardsPath == BasketPath \o <<"/giftcards">>
GiftcardsRemovePath == BasketPath \o <<"/giftcards/remove">>
CouponsPath == BasketPath \o <<"/coupons">>
CouponsRemovePath == BasketPath \o <<"/coupons/remove">>
\* addPackage's path (PackagesPathAccounts: a variant under /accounts/{token})
PackagesPathAccounts == BasketPath \o <<"/packages">>
PackagesPath == <<"/baskets/", "{basketIdent}", "/packages">>
PackagesRemovePath == <<"/baskets/", "{basketIdent}", "/packages/remove">>
PackagesUpdatePath == <<"/baskets/", "{basketIdent}", "/packages/update">>

Get == JsString(<<"GET">>)
Post == JsString(<<"POST">>)
Put == JsString(<<"PUT">>)

MethodCalls == { i \in DOMAIN calls : calls[i].origin = "method" }
CanInvoke == Cardinality(MethodCalls) < MaxCalls

\* What every method leaves alone.
Frame ==
    UNCHANGED <<client, ctorResult, publicToken, baseUrl, basketIdent, ident,
                chain, unhandled>>

Returned == [outcome |-> "returned", message |-> ""]
Threw(message) == [outcome |-> "threw", message |-> message]

\* new Basket(publicToken): the fields are set, the create-basket request is
\* made, and the constructor returns with the request in flight.
NewBasket(token) ==
    /\ client = "none"
    /\ client' = "basket"
    /\ publicToken' = token
    /\ baseUrl' = JsString(<<BaseUrl>>)
    /\ ident' = JsString(<<>>)
    /\ request("createBasket", "constructor", <<token>>, CreatePath, Post,
               JsUndefined, token, JsString(<<BaseUrl>>), basketIdent)
    /\ chain' = "pending"
    /\ ctorResult' = Returned
    /\ UNCHANGED <<basketIdent, unhandled>>

\* The value the .then callback stores: data.ident ?? ''
\* (ThenIdentRaw: the variant data.ident)
ThenIdentRaw(data) == GetProp(data, "ident")
ThenIdent(data) == Coalesce(GetProp(data, "ident"), JsString(<<>>))

\* .then((data) => { this.ident = data.ident ?? '' }); on null, reading
\* data.ident throws a TypeError and the chain goes on to .catch.
CtorThen ==
    /\ chain = "pending"
    /\ calls[1].state = "fulfilled"
    /\ IF calls[1].value.t = "null"
       THEN chain' = "thenThrew" /\ UNCHANGED ident
       ELSE chain' = "stored" /\ ident' = ThenIdent(calls[1].value)
    /\ UNCHANGED <<client, ctorResult, publicToken, baseUrl, basketIdent,
                   calls, net, unhandled>>

ThenError == Rejection("TypeError", "Cannot read properties of null")

\* .catch((err) => { throw new Error(err) }): the promise .catch returns is
\* rejected, and nothing holds it.
CtorCatch ==
    /\ \/ chain = "pending" /\ calls[1].state = "rejected"
       \/ chain = "thenThrew"
    /\ LET err == IF chain = "thenThrew" THEN ThenError ELSE calls[1].reason
       IN unhandled' = Append(unhandled, Rejection("Error", ReasonText(err)))
    /\ chain' = "unhandled"
    /\ UNCHANGED <<client, ctorResult, publicToken, baseUrl, basketIdent, ident,
                   calls, net>>

getAuthLinks(returnUrl) ==
    /\ client = "basket" /\ CanInvoke
    /\ IF Falsy(returnUrl)
       THEN Reject("getAuthLinks", <<returnUrl>>, "Return URL not provided")
       ELSE request("getAuthLinks", "method", <<returnUrl>>, AuthPath(returnUrl),
                    JsUndefined, JsUndefined, publicToken, baseUrl, basketIdent)
    /\ Frame

getBasket ==
    /\ client = "basket" /\ CanInvoke
    /\ request("getBasket", "method", <<>>, BasketPath, Get, JsUndefined,
               publicToken, baseUrl, basketIdent)
    /\ Frame

applyCreatorCode(code) ==
    /\ client = "basket" /\ CanInvoke
    /\ IF Falsy(code)
       THEN Reject("applyCreatorCode", <<code>>, "Creator code not provided")
       ELSE request("applyCreatorCode", "method", <<code>>, CreatorCodesPath,
                    Post, JsObject(<< <<"creator_code", code>> >>),
                    publicToken, baseUrl, basketIdent)
    /\ Frame

removeCreatorCode ==
    /\ client = "basket" /\ CanInvoke
    /\ request("removeCreatorCode", "method", <<>>, CreatorCodesRemovePath,
               Post, JsUndefined, publicToken, baseUrl, basketIdent)
    /\ Frame

applyGiftCard(code) ==
    /\ client = "basket" /\ CanInvoke
    /\ IF Falsy(code)
       THEN Reject("applyGiftCard", <<code>>, "Gift card code not provided")
       ELSE request("applyGiftCard", "method", <<code>>, GiftcardsPath, Post,
                    JsObject(<< <<"card_number", code>> >>),
                    publicToken, baseUrl, basketIdent)
    /\ Frame

removeGiftCard(code) ==
    /\ client = "basket" /\ CanInvoke
    /\ IF Falsy(code)
       THEN Reject("removeGiftCard", <<code>>, "Gift card code not provided")
       ELSE request("removeGiftCard", "method", <<code>>, GiftcardsRemovePath,
                    Post, JsObject(<< <<"card_number", code>> >>),
                    publicToken, baseUrl, basketIdent)
    /\ Frame

applyCoupon(code) ==
    /\ client = "basket" /\ CanInvoke
    /\ IF Falsy(code)
       THEN Reject("applyCoupon", <<code>>, "Coupon code not provided")
       ELSE request("applyCoupon", "method", <<code>>, CouponsPath, Post,
                    JsObject(<< <<"coupon_code", code>> >>),
                    publicToken, baseUrl, basketIdent)
    /\ Frame

removeCoupon ==
    /\ client = "basket" /\ CanInvoke
    /\ request("removeCoupon", "method", <<>>, CouponsRemovePath, Post,
               JsUndefined, publicToken, baseUrl, basketIdent)
    /\ Frame

addPackage(packageId, quantityArg) ==
    /\ client = "basket" /\ CanInvoke
    /\ LET quantity == DefaultParam(quantityArg, JsNumber(1))
       IN IF Falsy(packageId)
          THEN Reject("addPackage", <<packageId, quantityArg>>,
                      "Package ID not provided")
          ELSE request("addPackage", "method", <<packageId, quantityArg>>,
                       PackagesPath, Post,
                       JsObject(<< <<"package_id", packageId>>,
                                   <<"quantity", quantity>> >>),
                       publicToken, baseUrl, basketIdent)
    /\ Frame

removePackage(packageId) ==
    /\ client = "basket" /\ CanInvoke
    /\ IF Falsy(packageId)
       THEN Reject("removePackage", <<packageId>>, "Package ID not provided")
       ELSE request("removePackage", "method", <<packageId>>,
                    PackagesRemovePath, Post,
                    JsObject(<< <<"package_id", packageId>> >>),
                    publicToken, baseUrl, basketIdent)
    /\ Frame

updateQuantity(packageId, quantityArg) ==
    /\ client = "basket" /\ CanInvoke
    /\ LET quantity == DefaultParam(quantityArg, JsNumber(1))
       IN IF Falsy(packageId)
          THEN Reject("updateQuantity", <<packageId, quantityArg>>,
                      "Package ID not provided")
          ELSE IF Falsy(quantity)
          THEN Reject("updateQuantity", <<packageId, quantityArg>>,
                      "Quantity not provided")
          ELSE request("updateQuantity", "method", <<packageId, quantityArg>>,
                       PackagesUpdatePath, Put,
                       JsObject(<< <<"package_id", packageId>>,
                                   <<"quantity", quantity>> >>),
                       publicToken, baseUrl, basketIdent)
    /\ Frame

-----------------------------------------------------------------------------
(* Store *)

WebstorePath == <<"/accounts/", "{token}">>
PagesPath == <<"/accounts/", "{token}", "/pages">>

\* The constructor's check: !publicToken || typeof publicToken !== 'string'
\* (InvalidTokenTypeOnly: the variant without !publicToken)
InvalidTokenTypeOnly(token) == token.t # "string"
InvalidToken(token) == Falsy(token) \/ token.t # "string"

\* new Store(publicToken)
NewStore(token) ==
    /\ client = "none"
    /\ IF InvalidToken(token)
       THEN /\ client' = "failed"
            /\ ctorResult' = Threw("Invalid Token")
            /\ UNCHANGED <<publicToken, baseUrl>>
       ELSE /\ client' = "store"
            /\ ctorResult' = Returned
            /\ publicToken' = token
            /\ baseUrl' = JsString(<<BaseUrl>>)
    /\ UNCHANGED <<basketIdent, ident, calls, net, chain, unhandled>>

getWebstore ==
    /\ client = "store" /\ CanInvoke
    /\ request("getWebstore", "method", <<>>, WebstorePath, JsUndefined,
               JsUndefined, publicToken, baseUrl, basketIdent)
    /\ Frame

getPages ==
    /\ client = "store" /\ CanInvoke
    /\ request("getPages", "method", <<>>, PagesPath, JsUndefined, JsUndefined,
               publicToken, baseUrl, basketIdent)
    /\ Frame

-----------------------------------------------------------------------------
(* The program *)

Init ==
    /\ client = "none"
    /\ ctorResult = [outcome |-> "none", message |-> ""]
    /\ publicToken = JsUndefined
    /\ baseUrl = JsUndefined
    /\ basketIdent = JsUndefined
    /\ ident = JsString(<<>>)
    /\ calls = <<>>
    /\ net = <<>>
    /\ chain = "none"
    /\ unhandled = <<>>

Next ==
    \/ \E t \in TokenArgs : NewBasket(t)
    \/ \E t \in StoreTokenArgs : NewStore(t)
    \/ CtorThen
    \/ CtorCatch
    \/ \E c \in 1..(MaxCalls + 1), r \in Responses : FetchResponds(c, r)
    \/ \E c \in 1..(MaxCalls + 1) : FetchFails(c)
    \/ \E u \in ReturnUrls : getAuthLinks(u)
    \/ getBasket
    \/ \E code \in Codes : applyCreatorCode(code)
    \/ removeCreatorCode
    \/ \E code \in Codes : applyGiftCard(code)
    \/ \E code \in Codes : removeGiftCard(code)
    \/ \E code \in Codes : applyCoupon(code)
    \/ removeCoupon
    \/ \E p \in PackageIds, q \in Quantities : addPackage(p, q)
    \/ \E p \in PackageIds : removePackage(p)
    \/ \E p \in PackageIds, q \in Quantities : updateQuantity(p, q)
    \/ getWebstore
    \/ getPages

Spec == Init /\ [][Next]_vars

-----------------------------------------------------------------------------
(* What the claims speak of *)

RECURSIVE ClaimedRoute(_, _, _)
\* The path with t in place of every {token} and i in place of every
\* {basketIdent}, as the specification states the substitution.
ClaimedRoute(path, t, i) ==
    IF path = <<>> THEN <<>>
    ELSE (CASE Head(path) = "{token}" -> t
            [] Head(path) = "{basketIdent}" -> i
            [] OTHER -> <<Head(path)>>) \o ClaimedRoute(Tail(path), t, i)

\* The requests an invocation issued.
RequestsOf(c) == { n \in DOMAIN net : net[n].call = c }

BasketMethods ==
    { "getAuthLinks", "getBasket", "applyCreatorCode", "removeCreatorCode",
      "applyGiftCard", "removeGiftCard", "applyCoupon", "removeCoupon",
      "addPackage", "removePackage", "updateQuantity" }
QueryMethods == { "getAuthLinks", "getBasket" }
StoreMethods == { "getWebstore", "getPages" }

Empty == JsString(<<>>)

-----------------------------------------------------------------------------
\* C1: once the create-basket call has resolved with identifier i and the
\* identifier is held, every request a Basket method issues afterwards goes
\* to the base URL followed by its path with i in place of every
\* {basketIdent} and the token in place of every {token}; with token "abc"
\* and identifier "xyz", getBasket requests /accounts/abc/baskets/xyz.
C1_IdentSubstituted ==
    \A n \in DOMAIN net :
        LET c == calls[net[n].call]
        IN (c.op \in BasketMethods /\ c.chainAtInvoke = "stored"
            /\ ident # Empty)
           => net[n].url =
                BaseUrl \o Join(ClaimedRoute(net[n].path, publicToken.v, ident.v))

-----------------------------------------------------------------------------
\* The argument a method requires and found empty (or, for updateQuantity's
\* quantity, zero), with the message the method rejects with; "" when every
\* required argument was supplied.  An omitted quantity is no falsy value:
\* the parameter's default of 1 stands in for it.
MissingArgument(c) ==
    LET a == c.args
    IN CASE c.op = "getAuthLinks" /\ a[1] = Empty -> "Return URL not provided"
         [] c.op = "applyCreatorCode" /\ a[1] = Empty -> "Creator code not provided"
         [] c.op \in {"applyGiftCard", "removeGiftCard"} /\ a[1] = Empty ->
              "Gift card code not provided"
         [] c.op = "applyCoupon" /\ a[1] = Empty -> "Coupon code not provided"
         [] c.op \in {"addPackage", "removePackage", "updateQuantity"}
              /\ a[1] = Empty -> "Package ID not provided"
         [] c.op = "updateQuantity" /\ a[1] # Empty /\ a[2] = JsNumber(0) ->
              "Quantity not provided"
         [] OTHER -> ""

-----------------------------------------------------------------------------
\* The rejection the specification gives for a failing response.
ClaimedFailure(status) ==
    CASE status = 404 -> "Request failed with status 404: Not Found"
      [] status = 500 -> "Request failed with status 500: Internal Server Error"
      [] OTHER -> "Request failed with status"

\* C3: a call whose response has a status outside 200..299 is rejected with
\* exactly "Request failed with status <status>: <status text>" and the
\* response body is neither parsed nor returned; a call whose response has a
\* status inside 200..299 is never rejected with such a message.
C3_FailureMessage ==
    \A i \in DOMAIN calls :
        LET c == calls[i]
        IN c.fetch = "responded"
           => IF c.resp.status \in 200..299
              THEN c.state = "rejected"
                     => /\ c.reason.kind # "string"
                        /\ \A r \in Responses :
                              c.reason.message # ClaimedFailure(r.status)
              ELSE /\ c.state = "rejected"
                   /\ c.reason = [kind |-> "string",
                                  message |-> ClaimedFailure(c.resp.status)]
                   /\ ~c.jsonCalled
                   /\ c.value = JsUndefined

\* A method call and the constructor's call both met a 404.
C3_Witness ==
    /\ \E i \in DOMAIN calls :
          /\ calls[i].origin = "method"
          /\ calls[i].resp.status = 404
          /\ calls[i].reason.message = "Request failed with status 404: Not Found"
    /\ calls[1].origin = "constructor"
    /\ calls[1].resp.status = 500
    /\ calls[1].state = "rejected"

-----------------------------------------------------------------------------
\* The endpoint table of the specification: method, path template and body
\* keys of each operation.
EndpointTable(op) ==
    LET basket == <<"/accounts/", "{token}", "/baskets/", "{basketIdent}">>
        row(m, path, keys) == [method |-> m, path |-> path, keys |-> keys]
    IN CASE op = "createBasket" ->
              row("POST", <<"/accounts/", "{token}", "/baskets">>, {})
         [] op = "getBasket" -> row("GET", basket, {})
         [] op = "getAuthLinks" ->
              row("GET", basket \o <<"/auth?returnUrl=">>, {})
         [] op = "applyCreatorCode" ->
              row("POST", basket \o <<"/creator-codes">>, {"creator_code"})
         [] op = "removeCreatorCode" ->
              row("POST", basket \o <<"/creator-codes/remove">>, {})
         [] op = "applyGiftCard" ->
              row("POST", basket \o <<"/giftcards">>, {"card_number"})
         [] op = "removeGiftCard" ->
              row("POST", basket \o <<"/giftcards/remove">>, {"card_number"})
         [] op = "applyCoupon" ->
              row("POST", basket \o <<"/coupons">>, {"coupon_code"})
         [] op = "removeCoupon" ->
              row("POST", basket \o <<"/coupons/remove">>, {})
         [] op = "addPackage" ->
              row("POST", <<"/baskets/", "{basketIdent}", "/packages">>,
                  {"package_id", "quantity"})
         [] op = "removePackage" ->
              row("POST", <<"/baskets/", "{basketIdent}", "/packages/remove">>,
                  {"package_id"})
         [] op = "updateQuantity" ->
              row("PUT", <<"/baskets/", "{basketIdent}", "/packages/update">>,
                  {"package_id", "quantity"})
         [] op = "getWebstore" -> row("GET", <<"/accounts/", "{token}">>, {})
         [] op = "getPages" ->
              row("GET", <<"/accounts/", "{token}", "/pages">>, {})

\* The keys of a request body; none when no body is sent.
BodyKeys(body) ==
    IF body.t = "undefined" THEN {}
    ELSE { body.v[k][1] : k \in DOMAIN body.v }

\* The query value of the model's return URL, percent-encoded.
EncodedReturnUrl ==
    <<"https", "%3A", "%2F", "%2F", "example.com", "%2F", "done">>

\* C6: an invocation that passes its argument checks issues exactly one HTTP
\* request, also once it has failed, and the request's method, path template
\* and body keys are those of the operation's row of the endpoint table; the
\* body is sent exactly when the row names keys.
C6_OneRequestPerRow ==
    \A i \in DOMAIN calls :
        LET c == calls[i]
            row == EndpointTable(c.op)
        IN (c.origin = "method" /\ MissingArgument(c) = "")
           => /\ c.sent = 1
              /\ Cardinality(RequestsOf(i)) = 1
              /\ \A n \in RequestsOf(i) :
                    /\ net[n].method = row.method
                    /\ net[n].path =
                         row.path \o (IF c.op = "getAuthLinks"
                                      THEN EncodedReturnUrl ELSE <<>>)
                    /\ BodyKeys(net[n].body) = row.keys
                    /\ (net[n].bodyText.t = "undefined") = (row.keys = {})

\* updateQuantity issued its one PUT, was answered 500, and issued no other.
C6_Witness ==
    \E i \in DOMAIN calls :
        /\ calls[i].op = "updateQuantity"
        /\ calls[i].state = "rejected"
        /\ calls[i].resp.status = 500
        /\ Cardinality(RequestsOf(i)) = 1
        /\ \E n \in RequestsOf(i) : net[n].method = "PUT"

-----------------------------------------------------------------------------
\* C7: addPackage(pkgId) with a non-empty pkgId and no quantity sends a body
\* whose quantity is 1; with a quantity q it sends exactly q, 0 included.
C7_AddPackageQuantity ==
    \A i \in DOMAIN calls :
        LET c == calls[i]
        IN (c.op = "addPackage" /\ c.args[1] # Empty)
           => /\ RequestsOf(i) # {}
              /\ \A n \in RequestsOf(i) :
                    /\ net[n].body =
                         JsObject(<< <<"package_id", c.args[1]>>,
                                     <<"quantity",
                                       IF c.args[2] = JsUndefined
                                       THEN JsNumber(1) ELSE c.args[2]>> >>)
                    /\ net[n].bodyText =
                      [t |-> "text",
                       v |-> "{\"package_id\":\"" \o Join(c.args[1].v)
                             \o "\",\"quantity\":"
                             \o (IF c.args[2] = JsUndefined THEN "1"
                                 ELSE ToString(c.args[2].v))
                             \o "}"]

\* addPackage("pkg") was invoked without a quantity and its request carries 1.
C7_Witness ==
    \E i \in DOMAIN calls :
        /\ calls[i].op = "addPackage"
        /\ calls[i].args = <<JsString(<<"pkg">>), JsUndefined>>
        /\ \E n \in RequestsOf(i) :
              net[n].bodyText.v = "{\"package_id\":\"pkg\",\"quantity\":1}"

-----------------------------------------------------------------------------
-----------------------------------------------------------------------------
\* C5: every HTTP call that fails (fetch rejects, or the response status is
\* outside 200..299) surfaces as a rejected outcome of the call that
\* originated it: a method's promise is rejected, and a failure of the
\* create-basket call surfaces from the new Basket(...) that made it.
C5_FailuresSurface ==
    \A i \in DOMAIN calls :
        (\/ calls[i].fetch = "failed"
         \/ calls[i].fetch = "responded" /\ calls[i].resp.status \notin 200..299)
           => IF calls[i].origin = "constructor"
              THEN ctorResult.outcome = "threw"
              ELSE calls[i].state = "rejected"

-----------------------------------------------------------------------------
\* The identifier a create-basket response carries, '' when it carries none.
IssuedIdent(r) ==
    IF r.body = BodyIdent THEN JsString(<<"xyz">>) ELSE Empty

\* C8: after construction the token, the base URL and the transport's
\* basketIdent never change, and the basket identifier changes only when the
\* construction-time create-basket call has resolved successfully: once,
\* from empty to the server-issued value.  No method invocation, response,
\* validation rejection or transport failure changes any of them.
C8_OnlyIdentChanges ==
    [][ /\ client # "none" =>
            /\ publicToken' = publicToken
            /\ baseUrl' = baseUrl
            /\ client' = client
        /\ basketIdent' = basketIdent
        /\ (ident' # ident \/ (chain' = "stored" /\ chain # "stored")) =>
            /\ chain = "pending" /\ chain' = "stored"
            /\ calls[1].op = "createBasket"
            /\ calls[1].state = "fulfilled"
            /\ ident = Empty
            /\ ident' = IssuedIdent(calls[1].resp)
            /\ calls' = calls /\ net' = net
        /\ chain = "stored" => chain' = "stored"
      ]_vars

\* The identifier was stored and a method has since been invoked and settled.
C8_Witness ==
    /\ chain = "stored"
    /\ ident = JsString(<<"xyz">>)
    /\ \E i \in DOMAIN calls :
          /\ calls[i].origin = "method"
          /\ calls[i].chainAtInvoke = "stored"
          /\ calls[i].state # "pending"

-----------------------------------------------------------------------------
MutatingMethods == BasketMethods \ QueryMethods

\* C9: on a successful response getBasket and getAuthLinks resolve with the
\* parsed body unchanged, and every mutating Basket operation resolves with
\* no value, whatever the body contains.
C9_ResultValues ==
    \A i \in DOMAIN calls :
        LET c == calls[i]
        IN (c.origin = "method" /\ c.fetch = "responded"
            /\ c.resp.status \in 200..299)
           => /\ (c.op \in QueryMethods /\ c.state = "fulfilled")
                   => c.value = JsonParse(c.resp.body).v
              /\ c.op \in MutatingMethods
                   => c.state = "fulfilled" /\ c.value = JsUndefined

-----------------------------------------------------------------------------
\* C10: a Basket method invoked before the create-basket response has been
\* processed still issues its request at once, and the request has the empty
\* string in place of {basketIdent}; with token "abc", getBasket requests
\* /accounts/abc/baskets/.
C10_EmptyIdentBeforeCreate ==
    \A i \in DOMAIN calls :
        LET c == calls[i]
        IN (c.op \in BasketMethods /\ c.chainAtInvoke = "pending"
            /\ MissingArgument(c) = "")
           => /\ Cardinality(RequestsOf(i)) = 1
              /\ \A n \in RequestsOf(i) :
                    /\ net[n].url =
                         BaseUrl \o Join(SelectSeq(
                            ReplaceAll(net[n].path, "{token}", publicToken),
                            LAMBDA piece : piece # "{basketIdent}"))
                    /\ (c.op = "getBasket" /\ publicToken = JsString(<<"abc">>))
                         => net[n].url =
                              "https://headless.tebex.io/api/accounts/abc/baskets/"

\* getBasket was invoked on a Basket with token "abc" while the create-basket
\* call was still in flight, and its request went to .../baskets/.
C10_Witness ==
    /\ publicToken = JsString(<<"abc">>)
    /\ chain = "pending"
    /\ calls[1].fetch = "pending"
    /\ \E i \in DOMAIN calls :
          /\ calls[i].op = "getBasket"
          /\ calls[i].chainAtInvoke = "pending"
          /\ \E n \in RequestsOf(i) :
                net[n].url = "https://headless.tebex.io/api/accounts/abc/baskets/"

=============================================================================
